---- MODULE Spec2Model ----
(***************************************************************************)
(* Download engine of the BitTorrent client: the driver of download::all,  *)
(* the per piece coordinator (work and completion channels, select loop),  *)
(* the peer participations of Peer::participate, the piece ordering of     *)
(* impl Ord for Piece and the bitfield accessor.                           *)
(*                                                                         *)
(* Lengths are byte counts.  A buffer of L bytes is a sequence of L / Unit *)
(* cells; all lengths of the model are multiples of Unit and the bytes of  *)
(* one cell are written together.  Remote peers are untrusted: whenever a  *)
(* session reads its stream, any message may arrive.                       *)
(***************************************************************************)
EXTENDS Integers, Sequences, FiniteSets, TLC

\* ------------------------------------------------------------------ bounds
MaxPeers == 2
MaxPieces == 2
MaxLen == 4
MaxChokes == 1
MaxIgnored == 1
MaxFiles == 3
MaxAddrs == 6
MaxFrames == 2
MaxSplit == 12
MaxKeepAlives == 2
MaxBytes == 2

\* ------------------------------------------------------- program constants
BLOCK_MAX == 16384

\* granularity of the buffers of the model: half a block
Unit == BLOCK_MAX \div 2

VARIABLES
    t,              \* the torrent: [length, plength, pieces (hashes)]
    peers,          \* peer_i -> [bitfield (payload bytes), choked]
    pieces,         \* piece_i -> Piece descriptor
    need_pieces,    \* the BinaryHeap: its piece indices in the order pop yields them
    no_peers,       \* pieces that no connected peer has
    pc,             \* position of the driver
    result,         \* what download::all ended with
    cur,            \* piece_i of the piece the coordinator works on
    tasks,          \* work channel (submit / tasks), block indices
    done,           \* completion channel (finish / done), Piece messages
    all_blocks,     \* the buffer of the piece being assembled
    bytes_received,
    all_pieces,     \* the global output buffer
    part,           \* peer_i -> the participation's position and its block
    exits,          \* peer_i -> how its participation for this piece ended
    outstanding,    \* peer_i -> requests written and neither answered nor abandoned
    popped,         \* history: piece indices in the order the heap popped them
    delivered,      \* history: block index -> times the coordinator received it, this piece
    chokes,         \* history: payload lengths of the Chokes that interrupted a request
    closed,         \* history: peers whose stream was seen to end
    ignored,        \* number of messages read and dropped
    heard,           \* history: what the step read from a stream, [peer, msg]
    downloaded,     \* DownloadedIter: the Downloaded it walks, [bytes, files]
    file_iter,      \* DownloadedIter: the files not yet yielded
    offset,         \* DownloadedIter: offset
    yielded,        \* history: the DownloadedFile values next() returned
    addrs,          \* peer_info.peers: the addresses the stream has not taken yet
    in_flight,      \* buffer_unordered: the addresses whose Peer::new is running
    failed,         \* the addresses logged as "failed to connect to peer"
    accepted,       \* history: peer_i -> what the remote of the session did
    attempt,        \* history: the Peer::new that resolved last, [addr, remote]
    wire,           \* the bytes written to a stream: the dst of encode
    fed,            \* how many bytes of the stream have reached the reader
    feeds,          \* history: in how many reads they reached it
    src,            \* the reader's buffer: the src of decode
    out,            \* what decode has yielded: messages and errors
    last,           \* the answer of the last decode, or "fed" after a read
    items,          \* history: what was written to the stream
    bitfield,       \* Bitfield::pieces: the payload that is enumerated
    at_byte,        \* Bitfield::pieces: byte_i, the byte the iterator is at
    at_bit,         \* Bitfield::pieces: bit_i, the bit of that byte it looks at next
    produced,       \* history: the piece indices the iterator has yielded
    query           \* history: the last has_piece call, [piece_i, has]

\* the download engine
engine == <<t, peers, pieces, need_pieces, no_peers, pc, result, cur, tasks, done,
            all_blocks, bytes_received, all_pieces, part, exits, outstanding,
            popped, delivered, chokes, closed, ignored, heard>>

\* the walk over a finished download
walk == <<downloaded, file_iter, offset, yielded>>

\* the acquisition of the peer sessions (with peers, pc and result)
acquisition == <<addrs, in_flight, failed, accepted, attempt>>

\* the codec between a writer and a reader of one stream
codec == <<wire, fed, feeds, src, out, last, items>>

\* the enumeration of the pieces of a bitfield
enumeration == <<bitfield, at_byte, at_bit, produced, query>>

\* what the download engine does not touch
aside == <<walk, acquisition, codec, enumeration>>

vars == <<engine, aside>>

\* ------------------------------------------------------------------ helpers
Min(a, b) == IF a <= b THEN a ELSE b

\* vec![0; n]
Zeros(n) == [c \in 1..(n \div Unit) |-> 0]

\* buf[off..][..Len(data)].copy_from_slice(data)
CopyFromSlice(buf, off, data) ==
    [c \in 1..Len(buf) |->
        IF c > off \div Unit /\ c <= off \div Unit + Len(data)
        THEN data[c - off \div Unit]
        ELSE buf[c]]

\* &buf[off..][..n]
Slice(buf, off, n) == [c \in 1..(n \div Unit) |-> buf[off \div Unit + c]]

\* The bytes the swarm shares: cell c of the file (from 0).
Content(c) == c + 1

\* The content of the file from byte off, n bytes.
FileBytes(off, n) == [c \in 1..(n \div Unit) |-> Content(off \div Unit + c - 1)]

\* A block with one byte flipped.
Flipped(data) == [c \in 1..Len(data) |-> IF c = 1 THEN data[c] + 16 ELSE data[c]]

\* Sha1::new().update(buf).finalize(): a digest that tells apart all the
\* buffers of the model (of any length, with cell values below 64).
RECURSIVE Sha1Fold(_, _)
Sha1Fold(h, buf) == IF buf = <<>> THEN h ELSE Sha1Fold(h * 64 + Head(buf), Tail(buf))
Sha1(buf) == Sha1Fold(1, buf)

\* ------------------------------------------------------------------ torrent
\* Torrent::length
TLength(tor) == tor.length

NumPiecesOf(T, P) == (T + P - 1) \div P

\* The metainfo's hash list of a well-formed torrent: one SHA-1 per piece.
HashesOf(T, P) ==
    [i \in 0..(NumPiecesOf(T, P) - 1) |->
        Sha1(FileBytes(i * P, Min(P, T - i * P)))]

Torrents ==
    { [length |-> k * Unit, plength |-> P, pieces |-> HashesOf(k * Unit, P)] :
        <<k, P>> \in { x \in (1..MaxLen) \X {BLOCK_MAX, BLOCK_MAX + Unit} :
                        NumPiecesOf(x[1] * Unit, x[2]) <= MaxPieces } }

NPieces == Cardinality(DOMAIN t.pieces)

\* ----------------------------------------------------------------- bitfield
\* a rotation to the left
RotateLeft1(k) == 2 ^ (k % 8)

\* 1u8.rotate_right(k)
RotateRight1(k) == LET r == k % 8 IN IF r = 0 THEN 1 ELSE 2 ^ (8 - r)

\* Bitfield::has_piece
HasPiece(payload, piece_i) ==
    LET byte_i == piece_i \div 8
        bit_i  == piece_i % 8
    IN  IF byte_i + 1 > Len(payload)
        THEN FALSE
        ELSE (payload[byte_i + 1] \div RotateRight1(bit_i + 1)) % 2 = 1

\* Bitfield payloads a peer may have sent in its first message: no byte at
\* all, or one byte with some of the bits of the first MaxPieces pieces.
BitfieldPayloads ==
    {<<>>} \cup { <<b * 2 ^ (8 - MaxPieces)>> : b \in 1..(2 ^ MaxPieces - 1) }

\* ------------------------------------------------------- piece descriptors
\* a descriptor that would give every piece the piece length
PieceLengthFull(piece_i) == t.plength

\* Piece::new: the length of piece_i
PieceLength(piece_i) ==
    IF piece_i = NPieces - 1
    THEN LET md == TLength(t) % t.plength
         IN  IF md = 0 THEN t.plength ELSE md
    ELSE t.plength

\* a descriptor that would list every connected peer
PiecePeersAll(piece_i) == DOMAIN peers

\* Piece::new: the peers that have piece_i
PiecePeers(piece_i) ==
    { peer_i \in DOMAIN peers : HasPiece(peers[peer_i].bitfield, piece_i) }

\* The orders in which a HashSet may iterate over the set s.
IterOrders(s) ==
    { o \in [1..Cardinality(s) -> s] : \A a, b \in 1..Cardinality(s) : o[a] = o[b] => a = b }

Cmp(a, b) == IF a < b THEN -1 ELSE IF a > b THEN 1 ELSE 0

\* Iterator::cmp: lexicographic
RECURSIVE IterCmp(_, _)
IterCmp(a, b) ==
    IF a = <<>> /\ b = <<>> THEN 0
    ELSE IF a = <<>> THEN -1
    ELSE IF b = <<>> THEN 1
    ELSE IF Head(a) # Head(b) THEN Cmp(Head(a), Head(b))
    ELSE IterCmp(Tail(a), Tail(b))

\* Ordering::then
Then(o1, o2) == IF o1 # 0 THEN o1 ELSE o2

\* impl Ord for Piece
PieceCmp(self, other) ==
    Then(Cmp(Cardinality(self.peers), Cardinality(other.peers)),
    Then(IterCmp(self.iter, other.iter),
    Then(Cmp(self.hash, other.hash),
    Then(Cmp(self.length, other.length),
         Cmp(self.piece_i, other.piece_i)))))

\* BinaryHeap::pop: the greatest of the pieces `heap` of the descriptors ps
HeapMax(ps, heap) ==
    CHOOSE i \in heap : \A j \in heap : PieceCmp(ps[i], ps[j]) >= 0

\* The heap that holds the pieces `heap`, as the sequence of its pops.
RECURSIVE HeapOf(_, _)
HeapOf(ps, heap) ==
    IF heap = {} THEN <<>>
    ELSE LET top == HeapMax(ps, heap)
         IN  <<top>> \o HeapOf(ps, heap \ {top})

\* ----------------------------------------------------------------- messages
Tags == {"Choke", "Unchoke", "Interested", "NotInterested", "Have",
         "Bitfield", "Request", "Piece", "Cancel"}

\* size_of::<Piece<()>>()
PIECE_LEAD == 8

\* What Framed::next() may answer: None (the stream ended), Some(Err(..))
\* (an I/O error or a frame the codec rejects) or Some(Ok(message)).
Frame(res, tag, index, begin, block, len) ==
    [res |-> res, tag |-> tag, index |-> index, begin |-> begin,
     block |-> block, len |-> len]

\* a message without Piece fields, with an empty or a one byte payload
Plain(tag, len) == Frame("some", tag, 0, 0, <<>>, len)

\* a Piece message: index, begin and the block bytes
PieceMsg(index, begin, block) ==
    Frame("some", "Piece", index, begin, block, PIECE_LEAD + Len(block) * Unit)

\* a session that would ask for a full block every time
BlockSizeFull(block, nblocks, piece_size) == BLOCK_MAX

\* participate: block_size
BlockSize(block, nblocks, piece_size) ==
    IF block = nblocks - 1
    THEN LET md == piece_size % BLOCK_MAX
         IN  IF md = 0 THEN BLOCK_MAX ELSE md
    ELSE BLOCK_MAX

\* download::all: nblocks
NBlocks(piece_size) == (piece_size + (BLOCK_MAX - 1)) \div BLOCK_MAX

\* The answers a session may read while it is responsible for `block` of
\* piece `piece_i`: the end of the stream, an error, every tag with an
\* empty and a non-empty payload, and Piece messages that carry the block
\* (intact or with a byte flipped), another piece, another offset, a block
\* of another length, or fewer than PIECE_LEAD bytes.
Incoming(piece_i, block) ==
    LET size  == pieces[piece_i].length
        bsize == BlockSize(block, NBlocks(size), size)
        off   == piece_i * t.plength + block * BLOCK_MAX
        good  == FileBytes(off, bsize)
    IN  { Frame("none", "Choke", 0, 0, <<>>, 0), Frame("err", "Choke", 0, 0, <<>>, 0) }
        \cup { Plain(tag, len) : tag \in Tags \ {"Piece"}, len \in {0, 1} }
        \cup { PieceMsg(piece_i, block * BLOCK_MAX, good),
               PieceMsg(piece_i, block * BLOCK_MAX, Flipped(good)),
               PieceMsg(piece_i + 1, block * BLOCK_MAX, good),
               PieceMsg(piece_i, (block + 1) * BLOCK_MAX, good),
               PieceMsg(piece_i, block * BLOCK_MAX, good \o <<0>>),
               Frame("some", "Piece", 0, 0, <<>>, 4) }

\* -------------------------------------------------------------------- state
Running == [kind |-> "running", piece |-> -1, why |-> ""]
Idle == [st |-> "idle", block |-> -1]
NoExit == [how |-> "none", block |-> -1]

\* the step read nothing from a stream
NoMessage == [peer |-> -1, msg |-> Frame("none", "Choke", 0, 0, <<>>, 0)]

\* the participations that still run (each holds submit, tasks and finish)
Live == { p \in DOMAIN part : part[p].st \notin {"idle", "exited"} }

\* no Downloaded is walked
NoWalk ==
    /\ downloaded = [bytes |-> <<>>, files |-> <<>>]
    /\ file_iter = <<>>
    /\ offset = 0
    /\ yielded = <<>>

\* What the peer at an address does when Peer::new runs: whether it
\* accepts the connection, whether the handshake is exchanged (io), the
\* length and protocol string of its handshake, and what Framed::next()
\* answers first (res, tag, payload).
Remote(connect, io, length, bittorrent, res, tag, payload) ==
    [connect |-> connect, io |-> io, length |-> length, bittorrent |-> bittorrent,
     res |-> res, tag |-> tag, payload |-> payload]

NoRemote == Remote(FALSE, FALSE, 0, "", "none", "Choke", <<>>)

\* the peer sessions were acquired before: nothing is in flight
Acquired ==
    /\ addrs = <<>>
    /\ in_flight = {}
    /\ failed = {}
    /\ accepted = <<>>
    /\ attempt = [addr |-> -1, remote |-> NoRemote]

\* no stream is looked at
NoStream ==
    /\ wire = <<>>
    /\ fed = 0
    /\ feeds = 0
    /\ src = <<>>
    /\ out = <<>>
    /\ last = "none"
    /\ items = <<>>

\* no bitfield is enumerated
NoBitfield ==
    /\ bitfield = <<>>
    /\ at_byte = 0
    /\ at_bit = 0
    /\ produced = <<>>
    /\ query = [piece_i |-> -1, has |-> FALSE]

PeerLists ==
    UNION { [0..(n - 1) -> { [bitfield |-> b, choked |-> TRUE] : b \in BitfieldPayloads }] :
            n \in 0..MaxPeers }

Init ==
    /\ t \in Torrents
    /\ peers \in PeerLists
    /\ pieces = <<>>
    /\ need_pieces = <<>>
    /\ no_peers = {}
    /\ pc = "build"
    /\ result = Running
    /\ cur = -1
    /\ tasks = <<>>
    /\ done = <<>>
    /\ all_blocks = <<>>
    /\ bytes_received = 0
    /\ all_pieces = <<>>
    /\ part = [p \in DOMAIN peers |-> Idle]
    /\ exits = [p \in DOMAIN peers |-> NoExit]
    /\ outstanding = [p \in DOMAIN peers |-> <<>>]
    /\ popped = <<>>
    /\ delivered = <<>>
    /\ chokes = <<>>
    /\ closed = {}
    /\ ignored = 0
    /\ heard = NoMessage
    /\ NoWalk
    /\ Acquired
    /\ NoStream
    /\ NoBitfield

\* A panic unwinds download::all: every participation is dropped.
Panic(why) ==
    /\ result' = [kind |-> "panic", piece |-> cur, why |-> why]
    /\ pc' = "end"
    /\ part' = [p \in DOMAIN part |-> Idle]

\* ------------------------------------------------------------------- driver
\* Piece::new; iter is the order in which the HashSet `peers` iterates
NewPiece(piece_i, iter) ==
    [peers |-> PiecePeers(piece_i), iter |-> iter, piece_i |-> piece_i,
     length |-> PieceLength(piece_i), hash |-> t.pieces[piece_i]]

\* a driver that would go on with pieces nobody has
NoPeersIgnored(no) == TRUE

\* assert!(no_peers.is_empty())
NoPeersIsEmpty(no) == no = {}

\* Building the piece descriptors, the heap and no_peers, the assertion
\* that no piece is without peers, and the output buffer.  The iteration
\* order of each peer set is arbitrary; it is observed by the heap only,
\* which is not pushed to later.
Build ==
    /\ UNCHANGED aside
    /\ heard' = NoMessage
    /\ pc = "build"
    /\ \E iter \in [0..(NPieces - 1) -> UNION { IterOrders(PiecePeers(i)) : i \in 0..(NPieces - 1) }] :
        /\ \A i \in 0..(NPieces - 1) : iter[i] \in IterOrders(PiecePeers(i))
        /\ LET ps == [i \in 0..(NPieces - 1) |-> NewPiece(i, iter[i])]
           IN  /\ pieces' = [i \in 0..(NPieces - 1) |-> NewPiece(i, <<>>)]
               /\ need_pieces' = HeapOf(ps, { i \in 0..(NPieces - 1) : ps[i].peers # {} })
    /\ no_peers' = { i \in 0..(NPieces - 1) : PiecePeers(i) = {} }
    /\ IF ~NoPeersIsEmpty(no_peers')
       THEN /\ Panic("no_peers.is_empty()")
            /\ UNCHANGED all_pieces
       ELSE /\ all_pieces' = Zeros(TLength(t))
            /\ pc' = "pop"
            /\ UNCHANGED <<result, part>>
    /\ UNCHANGED <<t, peers, cur, tasks, done, all_blocks, bytes_received, exits,
                   outstanding, popped, delivered, chokes, closed, ignored>>

\* a driver that would seed one index more than the channel holds
SeedThrough(nblocks) == [b \in 1..(nblocks + 1) |-> b - 1]

\* for block in 0..nblocks { submit.send(block) }
Seed(nblocks) == [b \in 1..nblocks |-> b - 1]

\* need_pieces.pop() yields a piece: the channels are created, the work
\* channel is seeded and one participation per peer of the piece is pushed.
StartPiece ==
    /\ UNCHANGED aside
    /\ heard' = NoMessage
    /\ pc = "pop"
    /\ need_pieces # <<>>
    /\ LET piece_i    == Head(need_pieces)
           piece_size == pieces[piece_i].length
           nblocks    == NBlocks(piece_size)
       IN  /\ need_pieces' = Tail(need_pieces)
           /\ cur' = piece_i
           /\ popped' = Append(popped, piece_i)
           /\ tasks' = Seed(nblocks)
           /\ done' = <<>>
           /\ part' = [p \in DOMAIN peers |->
                         IF p \in pieces[piece_i].peers
                         THEN [st |-> "interested", block |-> -1]
                         ELSE Idle]
           /\ exits' = [p \in DOMAIN peers |-> NoExit]
           /\ all_blocks' = Zeros(piece_size)
           /\ bytes_received' = 0
           /\ delivered' = [b \in 0..(nblocks - 1) |-> 0]
           /\ pc' = "recv"
    /\ UNCHANGED <<t, peers, pieces, no_peers, result, all_pieces, outstanding,
                   chokes, closed, ignored>>

\* need_pieces.pop() yields None: Ok(Downloaded { bytes: all_pieces, .. })
Finish ==
    /\ UNCHANGED aside
    /\ heard' = NoMessage
    /\ pc = "pop"
    /\ need_pieces = <<>>
    /\ result' = [kind |-> "ok", piece |-> -1, why |-> ""]
    /\ pc' = "end"
    /\ UNCHANGED <<t, peers, pieces, need_pieces, no_peers, cur, tasks, done,
                   all_blocks, bytes_received, all_pieces, part, exits,
                   outstanding, popped, delivered, chokes, closed, ignored>>

\* a loop that would also stop before the last byte
CompleteUpTo(received, piece_size) == received <= piece_size

\* the completion predicate of the receive loop
Complete(received, piece_size) == received = piece_size

\* a coordinator that would append the blocks as they arrive
PlaceInArrivalOrder(buf, piece, received) == CopyFromSlice(buf, received, piece.block)

\* all_blocks[piece.begin()..][..piece.block().len()].copy_from_slice(piece.block())
Place(buf, piece, received) == CopyFromSlice(buf, piece.begin, piece.block)

\* a driver that would not compare the hash
HashUnchecked(buf, hash) == TRUE

\* assert_eq!(hash, piece.hash())
HashMatches(buf, hash) == Sha1(buf) = hash

\* a driver that would lay the pieces out in the order of the pops
PieceOffsetInPopOrder(piece_i) == (Len(popped) - 1) * t.plength

\* where the verified piece goes in all_pieces
PieceOffset(piece_i) == piece_i * t.plength

\* a driver that would keep the participations of a piece it is done with
KeepParticipants(participants) == participants

\* drop(participants)
DropParticipants(participants) == [p \in DOMAIN participants |-> Idle]

\* select!: done.recv() yields Some(piece)
RecvBlock ==
    /\ UNCHANGED aside
    /\ heard' = NoMessage
    /\ pc = "recv"
    /\ done # <<>>
    /\ LET piece      == Head(done)
           piece_size == pieces[cur].length
           len        == piece.len - PIECE_LEAD
       IN  /\ done' = Tail(done)
           /\ delivered' = [delivered EXCEPT ![piece.begin \div BLOCK_MAX] = @ + 1]
           /\ IF piece.len < PIECE_LEAD \/ piece.begin + len > piece_size
              THEN /\ Panic("always get all Piece response fields from peer")
                   /\ UNCHANGED <<bytes_received, all_blocks>>
              ELSE /\ bytes_received' = bytes_received + len
                   /\ all_blocks' = Place(all_blocks, piece, bytes_received)
                   /\ IF Complete(bytes_received', piece_size)
                      THEN /\ pc' = "verify"
                           /\ part' = DropParticipants(part)
                      ELSE UNCHANGED <<pc, part>>
                   /\ UNCHANGED result
    /\ UNCHANGED <<t, peers, pieces, need_pieces, no_peers, cur, tasks,
                   all_pieces, exits, outstanding, popped, chokes, closed, ignored>>

\* select!: done.recv() yields None, every finish sender is gone
RecvNone ==
    /\ UNCHANGED aside
    /\ heard' = NoMessage
    /\ pc = "recv"
    /\ done = <<>>
    /\ Live = {}
    /\ part' = DropParticipants(part)
    /\ IF Complete(bytes_received, pieces[cur].length)
       THEN /\ pc' = "verify"
            /\ UNCHANGED result
       ELSE /\ result' = [kind |-> "NoPeersLeftForPiece", piece |-> cur, why |-> ""]
            /\ pc' = "end"
    /\ UNCHANGED <<t, peers, pieces, need_pieces, no_peers, cur, tasks, done,
                   all_blocks, bytes_received, all_pieces, exits, outstanding,
                   popped, delivered, chokes, closed, ignored>>

\* the hash of the assembled piece is asserted, the piece is copied
Verify ==
    /\ UNCHANGED aside
    /\ heard' = NoMessage
    /\ pc = "verify"
    /\ IF ~HashMatches(all_blocks, pieces[cur].hash)
       THEN /\ Panic("assert_eq!(hash, piece.hash())")
            /\ UNCHANGED all_pieces
       ELSE /\ all_pieces' = CopyFromSlice(all_pieces, PieceOffset(cur), all_blocks)
            /\ pc' = "pop"
            /\ UNCHANGED <<result, part>>
    /\ UNCHANGED <<t, peers, pieces, need_pieces, no_peers, cur, tasks, done,
                   all_blocks, bytes_received, exits, outstanding, popped,
                   delivered, chokes, closed, ignored>>

\* ----------------------------------------------------------- participations
\* The participation of peer p returns; the coordinator's `joined` arm
\* runs in the same poll and changes nothing.
Exit(p, how) ==
    /\ part' = [part EXCEPT ![p] = [st |-> "exited", block |-> -1]]
    /\ exits' = [exits EXCEPT ![p] = [how |-> how, block |-> part[p].block]]

\* a session that would never wait for an Unchoke
LoopTopUnchoked(choked) == "tasks"

\* top of 'task: `while self.choked` is entered or skipped
LoopTop(choked) == IF choked THEN "unchoke" ELSE "tasks"

\* a message is read and dropped
Ignore ==
    /\ ignored < MaxIgnored
    /\ ignored' = ignored + 1

\* self.stream.send(Interested)
SendInterested(p) ==
    /\ UNCHANGED aside
    /\ heard' = NoMessage
    /\ pc = "recv"
    /\ part[p].st = "interested"
    /\ \E sent \in BOOLEAN :
        IF sent
        THEN /\ part' = [part EXCEPT ![p].st = LoopTop(peers[p].choked)]
             /\ UNCHANGED exits
        ELSE Exit(p, "err")
    /\ UNCHANGED <<t, peers, pieces, need_pieces, no_peers, pc, result, cur, tasks,
                   done, all_blocks, bytes_received, all_pieces, outstanding,
                   popped, delivered, chokes, closed, ignored>>

\* a choked loop that would let a late Bitfield pass
BailsWhileChokedOnChoke(tag) == tag = "Choke"

\* `while self.choked`: the arms that anyhow::bail!
BailsWhileChoked(tag) == tag \in {"Choke", "Bitfield"}

\* `while self.choked`: one message is read
ReadChoked(p) ==
    /\ UNCHANGED aside
    /\ pc = "recv"
    /\ part[p].st = "unchoke"
    /\ \E unchoke \in Incoming(cur, 0) :
        /\ heard' = [peer |-> p, msg |-> unchoke]
        /\ CASE unchoke.res = "none" ->
                /\ Panic("peer always sends an unchoke")
                /\ closed' = closed \cup {p}
                /\ UNCHANGED <<peers, exits, ignored>>
          [] unchoke.res = "err" ->
                /\ Exit(p, "err")
                /\ UNCHANGED <<peers, pc, result, closed, ignored>>
          [] unchoke.res = "some" /\ unchoke.tag = "Unchoke" ->
                /\ peers' = [peers EXCEPT ![p].choked = FALSE]
                /\ IF unchoke.len = 0
                   THEN /\ part' = [part EXCEPT ![p].st = "tasks"]
                        /\ UNCHANGED <<pc, result>>
                   ELSE Panic("unchoke.payload.is_empty()")
                /\ UNCHANGED <<exits, closed, ignored>>
          [] unchoke.res = "some" /\ BailsWhileChoked(unchoke.tag) ->
                /\ Exit(p, "err")
                /\ UNCHANGED <<peers, pc, result, closed, ignored>>
          [] OTHER ->
                /\ Ignore
                /\ UNCHANGED <<peers, part, exits, pc, result, closed>>
    /\ UNCHANGED <<t, pieces, need_pieces, no_peers, cur, tasks, done, all_blocks,
                   bytes_received, all_pieces, outstanding, popped, delivered, chokes>>

\* tasks.recv(): a block index, or the closed channel ends the loop with Ok(())
TakeTask(p) ==
    /\ UNCHANGED aside
    /\ heard' = NoMessage
    /\ pc = "recv"
    /\ part[p].st = "tasks"
    /\ IF tasks # <<>>
       THEN /\ part' = [part EXCEPT ![p] = [st |-> "request", block |-> Head(tasks)]]
            /\ tasks' = Tail(tasks)
            /\ UNCHANGED exits
       ELSE /\ Cardinality(Live) = 0
            /\ Exit(p, "ok")
            /\ UNCHANGED tasks
    /\ UNCHANGED <<t, peers, pieces, need_pieces, no_peers, pc, result, cur, done,
                   all_blocks, bytes_received, all_pieces, outstanding, popped,
                   delivered, chokes, closed, ignored>>

\* a session that would write the Request and go on to the next block
\* without waiting for the reply
SendRequestNoWait(p) ==
    /\ UNCHANGED aside
    /\ heard' = NoMessage
    /\ pc = "recv"
    /\ part[p].st = "request"
    /\ LET block      == part[p].block
           piece_size == pieces[cur].length
           block_size == BlockSize(block, NBlocks(piece_size), piece_size)
           request    == [index |-> cur, begin |-> block * BLOCK_MAX, length |-> block_size]
       IN  /\ part' = [part EXCEPT ![p].st = "tasks"]
           /\ outstanding' = [outstanding EXCEPT ![p] = Append(@, request)]
           /\ UNCHANGED exits
    /\ UNCHANGED <<t, peers, pieces, need_pieces, no_peers, pc, result, cur, tasks,
                   done, all_blocks, bytes_received, all_pieces, popped, delivered,
                   chokes, closed, ignored>>

\* block_size is computed and the Request is written
SendRequest(p) ==
    /\ UNCHANGED aside
    /\ heard' = NoMessage
    /\ pc = "recv"
    /\ part[p].st = "request"
    /\ LET block      == part[p].block
           piece_size == pieces[cur].length
           block_size == BlockSize(block, NBlocks(piece_size), piece_size)
           request    == [index |-> cur, begin |-> block * BLOCK_MAX, length |-> block_size]
       IN  \E sent \in BOOLEAN :
            IF sent
            THEN /\ part' = [part EXCEPT ![p].st = "piece"]
                 /\ outstanding' = [outstanding EXCEPT ![p] = Append(@, request)]
                 /\ UNCHANGED exits
            ELSE /\ Exit(p, "err")
                 /\ UNCHANGED outstanding
    /\ UNCHANGED <<t, peers, pieces, need_pieces, no_peers, pc, result, cur, tasks,
                   done, all_blocks, bytes_received, all_pieces, popped, delivered,
                   chokes, closed, ignored>>

\* a session that would keep the block of an interrupted request
ResubmitDropped(queue, block) == queue

\* submit.send(block) after a Choke
Resubmit(queue, block) == Append(queue, block)

\* the inner loop after a Request: one message is read
ReadReply(p) ==
    /\ UNCHANGED aside
    /\ pc = "recv"
    /\ part[p].st = "piece"
    /\ LET block      == part[p].block
           piece_size == pieces[cur].length
           block_size == BlockSize(block, NBlocks(piece_size), piece_size)
       IN  \E msg \in Incoming(cur, block) :
            /\ heard' = [peer |-> p, msg |-> msg]
            /\ CASE msg.res = "none" ->
                    /\ Panic("peer always sends a piece")
                    /\ closed' = closed \cup {p}
                    /\ UNCHANGED <<peers, exits, tasks, done, outstanding, chokes, ignored>>
              [] msg.res = "err" ->
                    /\ Exit(p, "err")
                    /\ UNCHANGED <<peers, pc, result, tasks, done, outstanding, chokes,
                                   closed, ignored>>
              [] msg.res = "some" /\ msg.tag = "Choke" ->
                    /\ Len(chokes) < MaxChokes
                    /\ chokes' = Append(chokes, msg.len)
                    /\ IF msg.len = 0
                       THEN /\ peers' = [peers EXCEPT ![p].choked = TRUE]
                            /\ tasks' = Resubmit(tasks, block)
                            /\ outstanding' = [outstanding EXCEPT ![p] = Tail(@)]
                            /\ part' = [part EXCEPT ![p] = [st |-> LoopTop(TRUE), block |-> -1]]
                            /\ UNCHANGED <<pc, result>>
                       ELSE /\ Panic("msg.payload.is_empty()")
                            /\ UNCHANGED <<peers, tasks, outstanding>>
                    /\ UNCHANGED <<exits, done, closed, ignored>>
              [] msg.res = "some" /\ msg.tag = "Piece" ->
                    IF msg.len < PIECE_LEAD
                    THEN /\ Panic("always get all Piece response fields from peer")
                         /\ UNCHANGED <<peers, exits, tasks, done, outstanding, chokes,
                                        closed, ignored>>
                    ELSE IF msg.index # cur \/ msg.begin # block * BLOCK_MAX
                    THEN /\ Ignore
                         /\ UNCHANGED <<peers, part, exits, pc, result, tasks, done,
                                        outstanding, chokes, closed>>
                    ELSE IF msg.len - PIECE_LEAD # block_size
                    THEN /\ Panic("assert_eq!(piece.block().len(), block_size)")
                         /\ UNCHANGED <<peers, exits, tasks, done, outstanding, chokes,
                                        closed, ignored>>
                    ELSE /\ done' = Append(done, msg)
                         /\ outstanding' = [outstanding EXCEPT ![p] = Tail(@)]
                         /\ part' = [part EXCEPT ![p] =
                                       [st |-> LoopTop(peers[p].choked), block |-> -1]]
                         /\ UNCHANGED <<peers, exits, pc, result, tasks, chokes, closed,
                                        ignored>>
              [] msg.res = "some" /\ msg.tag \in {"Unchoke", "Bitfield"} ->
                    /\ Exit(p, "err")
                    /\ UNCHANGED <<peers, pc, result, tasks, done, outstanding, chokes,
                                   closed, ignored>>
              [] OTHER ->
                    /\ Ignore
                    /\ UNCHANGED <<peers, part, exits, pc, result, tasks, done,
                                   outstanding, chokes, closed>>
    /\ UNCHANGED <<t, pieces, need_pieces, no_peers, cur, all_blocks, bytes_received,
                   all_pieces, popped, delivered>>

\* ------------------------------------------------------------ specification
Next ==
    \/ Build
    \/ StartPiece
    \/ Finish
    \/ RecvBlock
    \/ RecvNone
    \/ Verify
    \/ \E p \in DOMAIN peers : SendInterested(p)
    \/ \E p \in DOMAIN peers : ReadChoked(p)
    \/ \E p \in DOMAIN peers : TakeTask(p)
    \/ \E p \in DOMAIN peers : SendRequest(p)
    \/ \E p \in DOMAIN peers : ReadReply(p)

Spec == Init /\ [][Next]_vars

\* Scheduling: the executor polls the driver and every participation that
\* can run, and a peer that stays connected sends the Unchoke and the
\* Piece its session waits for and accepts what the session writes.
Driver == Build \/ StartPiece \/ Finish \/ RecvBlock \/ RecvNone \/ Verify

Served(p) ==
    /\ p \in DOMAIN peers
    /\ \/ SendInterested(p) /\ part'[p].st # "exited"
       \/ ReadChoked(p) /\ part'[p].st = "tasks"
       \/ TakeTask(p)
       \/ SendRequest(p) /\ part'[p].st = "piece"
       \/ ReadReply(p) /\ Len(done') > Len(done)

FairSpec ==
    /\ Spec
    /\ WF_vars(Driver)
    /\ \A p \in 0..(MaxPeers - 1) : WF_vars(Served(p))

\* ------------------------------------------------- acquiring the peer sessions
\* buffer_unordered(5)
InFlightLimit == 5

\* peer_list.len() >= 5
PeerLimit == 5

\* the protocol string of a BitTorrent handshake and its length
Protocol == "BitTorrent protocol"
ProtocolLength == 19

\* the bitfields of the remotes the acquisition is run against: no byte,
\* or one byte with the bit of piece 0
ConnectBitfields == {<<>>, <<RotateRight1(1)>>}

\* The remotes: the ones that do all a session needs, and for each step of
\* Peer::new one that fails it.
Remotes ==
    { Remote(TRUE, TRUE, ProtocolLength, Protocol, "some", "Bitfield", b) : b \in ConnectBitfields }
    \cup
    { Remote(FALSE, FALSE, 0, "", "none", "Choke", <<>>),
      Remote(TRUE, FALSE, 0, "", "none", "Choke", <<>>),
      Remote(TRUE, TRUE, ProtocolLength - 1, Protocol, "some", "Bitfield", <<>>),
      Remote(TRUE, TRUE, ProtocolLength, "BitTorrent protocoL", "some", "Bitfield", <<>>),
      Remote(TRUE, TRUE, ProtocolLength, Protocol, "none", "Choke", <<>>),
      Remote(TRUE, TRUE, ProtocolLength, Protocol, "err", "Choke", <<>>),
      Remote(TRUE, TRUE, ProtocolLength, Protocol, "some", "Unchoke", <<>>),
      Remote(TRUE, TRUE, ProtocolLength, Protocol, "some", "Have", <<0>>) }

\* Peer::new
PeerNew(remote) ==
    LET Err(why) == [res |-> "err", why |-> why, peer |-> [bitfield |-> <<>>, choked |-> TRUE]]
    IN  IF ~remote.connect THEN Err("connect to peer")
        ELSE IF ~remote.io THEN Err("read handshake")
        ELSE IF remote.length # ProtocolLength THEN Err("handshake.length == 19")
        ELSE IF remote.bittorrent # Protocol THEN Err("&handshake.bittorrent")
        ELSE IF remote.res = "none"
        THEN [res |-> "panic", why |-> "peer always sends a bitfields",
              peer |-> [bitfield |-> <<>>, choked |-> TRUE]]
        ELSE IF remote.res = "err" THEN Err("peer message was invalid")
        ELSE IF remote.tag # "Bitfield" THEN Err("bitfield.tag == MessageTag::Bitfield")
        ELSE [res |-> "ok", why |-> "",
              peer |-> [bitfield |-> remote.payload, choked |-> TRUE]]

\* BufferUnordered::poll_next: the queue is topped up from the stream
RECURSIVE Fill(_, _)
Fill(queue, stream) ==
    IF Cardinality(queue) < InFlightLimit /\ stream # <<>>
    THEN Fill(queue \cup {Head(stream)}, Tail(stream))
    ELSE [queue |-> queue, stream |-> stream]

\* a driver that would take every peer that answers
EnoughNever(peer_list) == FALSE

\* peer_list.len() >= 5
Enough(peer_list) == Cardinality(DOMAIN peer_list) >= PeerLimit

\* peer_list.push(peer)
Push(peer_list, peer) ==
    [i \in 0..Cardinality(DOMAIN peer_list) |->
        IF i \in DOMAIN peer_list THEN peer_list[i] ELSE peer]

\* download::all is entered with the tracker's answer: the stream of
\* connection attempts is built and polled for the first time.
ConnectInit ==
    /\ t = [length |-> 0, plength |-> BLOCK_MAX, pieces |-> <<>>]
    /\ peers = <<>>
    /\ pieces = <<>>
    /\ need_pieces = <<>>
    /\ no_peers = {}
    /\ pc = "connect"
    /\ result = Running
    /\ cur = -1
    /\ tasks = <<>>
    /\ done = <<>>
    /\ all_blocks = <<>>
    /\ bytes_received = 0
    /\ all_pieces = <<>>
    /\ part = <<>>
    /\ exits = <<>>
    /\ outstanding = <<>>
    /\ popped = <<>>
    /\ delivered = <<>>
    /\ chokes = <<>>
    /\ closed = {}
    /\ ignored = 0
    /\ heard = NoMessage
    /\ NoWalk
    /\ NoStream
    /\ NoBitfield
    /\ \E n \in 0..MaxAddrs :
        LET first == Fill({}, [i \in 1..n |-> i - 1])
        IN  /\ addrs = first.stream
            /\ in_flight = first.queue
    /\ failed = {}
    /\ accepted = <<>>
    /\ attempt = [addr |-> -1, remote |-> NoRemote]

\* peers.next() yields Some((peer_addr, peer)): the Peer::new of one
\* address in flight has resolved.  The body of the loop runs, and unless
\* it breaks the stream is polled again, which tops the queue up.
PeersNext(peer_addr) ==
    /\ pc = "connect"
    /\ peer_addr \in in_flight
    /\ \E remote \in Remotes :
        LET peer == PeerNew(remote)
            rest == Fill(in_flight \ {peer_addr}, addrs)
        IN  /\ attempt' = [addr |-> peer_addr, remote |-> remote]
            /\ CASE peer.res = "ok" ->
                    /\ peers' = Push(peers, peer.peer)
                    /\ accepted' = Push(accepted, remote)
                    /\ IF Enough(peers')
                       THEN /\ pc' = "build"
                            /\ in_flight' = {}
                            /\ UNCHANGED addrs
                       ELSE /\ in_flight' = rest.queue
                            /\ addrs' = rest.stream
                            /\ UNCHANGED pc
                    /\ UNCHANGED <<failed, result>>
                 [] peer.res = "err" ->
                    /\ failed' = failed \cup {peer_addr}
                    /\ in_flight' = rest.queue
                    /\ addrs' = rest.stream
                    /\ UNCHANGED <<peers, accepted, pc, result>>
                 [] peer.res = "panic" ->
                    /\ result' = [kind |-> "panic", piece |-> -1, why |-> peer.why]
                    /\ pc' = "end"
                    /\ in_flight' = {}
                    /\ UNCHANGED <<peers, accepted, failed, addrs>>
    /\ UNCHANGED <<t, pieces, need_pieces, no_peers, cur, tasks, done, all_blocks,
                   bytes_received, all_pieces, part, exits, outstanding, popped,
                   delivered, chokes, closed, ignored, heard>>
    /\ UNCHANGED <<walk, codec, enumeration>>

\* peers.next() yields None: every address was tried
PeersEnd ==
    /\ pc = "connect"
    /\ in_flight = {}
    /\ pc' = "build"
    /\ UNCHANGED <<t, peers, pieces, need_pieces, no_peers, result, cur, tasks, done,
                   all_blocks, bytes_received, all_pieces, part, exits, outstanding,
                   popped, delivered, chokes, closed, ignored, heard>>
    /\ UNCHANGED <<walk, acquisition, codec, enumeration>>

ConnectNext ==
    \/ \E peer_addr \in 0..(MaxAddrs - 1) : PeersNext(peer_addr)
    \/ PeersEnd

ConnectSpec == ConnectInit /\ [][ConnectNext]_vars

\* ------------------------------------------------- walking a finished download
\* The engine is not running: no torrent is being downloaded.
EngineOff ==
    /\ t = [length |-> 0, plength |-> BLOCK_MAX, pieces |-> <<>>]
    /\ peers = <<>>
    /\ pieces = <<>>
    /\ need_pieces = <<>>
    /\ no_peers = {}
    /\ pc = "end"
    /\ result = Running
    /\ cur = -1
    /\ tasks = <<>>
    /\ done = <<>>
    /\ all_blocks = <<>>
    /\ bytes_received = 0
    /\ all_pieces = <<>>
    /\ part = <<>>
    /\ exits = <<>>
    /\ outstanding = <<>>
    /\ popped = <<>>
    /\ delivered = <<>>
    /\ chokes = <<>>
    /\ closed = {}
    /\ ignored = 0
    /\ heard = NoMessage

\* torrent::File
File(length, path) == [length |-> length, path |-> path]

\* The manifests of the model: Keys::SingleFile, or Keys::MultiFile with up
\* to MaxFiles files of up to MaxLen cells each.
Keys ==
    { [kind |-> "SingleFile", length |-> k * Unit, files |-> <<>>] : k \in 1..MaxLen }
    \cup
    { [kind |-> "MultiFile", length |-> 0,
       files |-> [i \in 1..n |-> File(len[i] * Unit, <<"dir", i>>)]] :
        <<n, len>> \in { x \in (1..MaxFiles) \X [1..MaxFiles -> 1..MaxLen] :
                          \A i \in 1..MaxFiles : i > x[1] => x[2][i] = 1 } }

\* files.iter().map(|file| file.length).sum()
RECURSIVE SumLengths(_)
SumLengths(files) ==
    IF files = <<>> THEN 0 ELSE Head(files).length + SumLengths(Tail(files))

\* Torrent::length of a torrent with these keys
KeysLength(keys) ==
    IF keys.kind = "SingleFile" THEN keys.length ELSE SumLengths(keys.files)

\* Ok(Downloaded { bytes: all_pieces, files }) of a torrent named `name`
Downloaded(bytes, keys, name) ==
    [bytes |-> bytes,
     files |-> IF keys.kind = "SingleFile"
               THEN <<File(keys.length, <<name>>)>>
               ELSE keys.files]

\* DownloadedIter::new over the outcome of a successful download
WalkInit ==
    /\ EngineOff
    /\ Acquired
    /\ NoStream
    /\ NoBitfield
    /\ \E keys \in Keys :
        downloaded = Downloaded(FileBytes(0, KeysLength(keys)), keys, "name")
    /\ file_iter = downloaded.files
    /\ offset = 0
    /\ yielded = <<>>

\* DownloadedIter::next yields Some(DownloadedFile { file, bytes })
IterNext ==
    /\ file_iter # <<>>
    /\ LET file  == Head(file_iter)
           bytes == Slice(SubSeq(downloaded.bytes, offset \div Unit + 1, Len(downloaded.bytes)),
                          0, file.length)
       IN  /\ file_iter' = Tail(file_iter)
           /\ yielded' = Append(yielded, [file |-> file, bytes |-> bytes])
    /\ UNCHANGED <<downloaded, offset>>
    /\ UNCHANGED <<engine, acquisition, codec, enumeration>>

WalkNext == IterNext

WalkSpec == WalkInit /\ [][WalkNext]_vars

\* ------------------------------------------------------------------ the codec
\* Byte strings are kept as runs of equal bytes, [b |-> byte, n |-> count]
\* with n > 0 and no two neighbouring runs of the same byte, so that a
\* payload of 65536 bytes is one run and equal strings are equal values.
Run(b, n) == IF n = 0 THEN <<>> ELSE << [b |-> b, n |-> n] >>

\* len()
RECURSIVE BLen(_)
BLen(bytes) == IF bytes = <<>> THEN 0 ELSE Head(bytes).n + BLen(Tail(bytes))

\* extend_from_slice
ExtendFromSlice(buf, bytes) ==
    IF buf = <<>> THEN bytes
    ELSE IF bytes = <<>> THEN buf
    ELSE IF buf[Len(buf)].b = bytes[1].b
    THEN SubSeq(buf, 1, Len(buf) - 1)
         \o << [b |-> bytes[1].b, n |-> buf[Len(buf)].n + bytes[1].n] >>
         \o Tail(bytes)
    ELSE buf \o bytes

\* put_u8
PutU8(buf, b) == ExtendFromSlice(buf, Run(b, 1))

\* advance(n): the buffer without its first n bytes
RECURSIVE Advance(_, _)
Advance(buf, n) ==
    IF n = 0 \/ buf = <<>> THEN buf
    ELSE IF Head(buf).n <= n THEN Advance(Tail(buf), n - Head(buf).n)
    ELSE << [b |-> Head(buf).b, n |-> Head(buf).n - n] >> \o Tail(buf)

\* &buf[..n]
RECURSIVE Prefix(_, _)
Prefix(buf, n) ==
    IF n = 0 \/ buf = <<>> THEN <<>>
    ELSE IF Head(buf).n <= n THEN <<Head(buf)>> \o Prefix(Tail(buf), n - Head(buf).n)
    ELSE << [b |-> Head(buf).b, n |-> n] >>

\* &buf[from..to]
Range(buf, from, to) == Prefix(Advance(buf, from), to - from)

\* buf[i]
RECURSIVE ByteAt(_, _)
ByteAt(buf, i) ==
    IF i < Head(buf).n THEN Head(buf).b ELSE ByteAt(Tail(buf), i - Head(buf).n)

\* u32::from_be_bytes of the first four bytes of buf
FromBeBytes(buf) ==
    ByteAt(buf, 0) * 2 ^ 24 + ByteAt(buf, 1) * 2 ^ 16 + ByteAt(buf, 2) * 2 ^ 8 + ByteAt(buf, 3)

\* u32::to_be_bytes
ToBeBytes(x) ==
    PutU8(PutU8(PutU8(PutU8(<<>>, x \div 2 ^ 24), (x \div 2 ^ 16) % 2 ^ 8),
                (x \div 2 ^ 8) % 2 ^ 8), x % 2 ^ 8)

\* const MAX
MAX == 65536

\* enum MessageTag, in the order of its discriminants 0..8
MessageTag ==
    <<"Choke", "Unchoke", "Interested", "NotInterested", "Have",
      "Bitfield", "Request", "Piece", "Cancel">>

\* item.tag as u8
TagAsU8(tag) == CHOOSE b \in 0..(Len(MessageTag) - 1) : MessageTag[b + 1] = tag

\* struct Message
Message(tag, payload) == [tag |-> tag, payload |-> payload]

\* what decode answers: Ok(None), Ok(Some(message)) or Err(why), and the
\* buffer it leaves
Decoded(res, buf, tag, payload, why) ==
    [res |-> res, src |-> buf, tag |-> tag, payload |-> payload, why |-> why]

\* a decoder that would not know the heartbeat
IsHeartbeatNever(length) == FALSE

\* length == 0
IsHeartbeat(length) == length = 0

\* a decoder that would refuse a frame of MAX bytes
TooLargeFromMax(length) == length >= MAX

\* length > MAX
TooLarge(length) == length > MAX

\* a decoder that would not wait for the last byte of the frame
IncompleteButOne(len, length) == len < 4 + length - 1

\* src.len() < 4 + length
Incomplete(len, length) == len < 4 + length

\* Decoder::decode
RECURSIVE Decode(_)
Decode(buf) ==
    IF BLen(buf) < 4
    THEN Decoded("none", buf, "", <<>>, "")
    ELSE LET length == FromBeBytes(buf)
         IN  IF IsHeartbeat(length)
             THEN Decode(Advance(buf, 4))
             ELSE IF BLen(buf) < 5
             THEN Decoded("none", buf, "", <<>>, "")
             ELSE IF TooLarge(length)
             THEN Decoded("err", buf, "", <<>>, "Frame is too large")
             ELSE IF Incomplete(BLen(buf), length)
             THEN Decoded("none", buf, "", <<>>, "")
             ELSE IF ByteAt(buf, 4) \notin 0..(Len(MessageTag) - 1)
             THEN Decoded("err", buf, "", <<>>, "Unknown message type")
             ELSE LET data == IF BLen(buf) > 5 THEN Range(buf, 5, 4 + length) ELSE <<>>
                  IN  Decoded("some", Advance(buf, 4 + length),
                              MessageTag[ByteAt(buf, 4) + 1], data, "")

\* an encoder that would not count the tag byte
FrameLengthNoTag(payload) == BLen(payload)

\* item.payload.len() as u32 + 1
FrameLength(payload) == BLen(payload) + 1

\* Encoder::encode
Encode(item, buf) ==
    IF BLen(item.payload) + 1 > MAX
    THEN [res |-> "err", dst |-> buf]
    ELSE [res |-> "ok",
          dst |-> ExtendFromSlice(
                      PutU8(ExtendFromSlice(buf, ToBeBytes(FrameLength(item.payload))),
                            TagAsU8(item.tag)),
                      item.payload)]

\* The messages that are encoded: every tag without payload, a Have of
\* piece 0, a Bitfield of one byte, and Pieces whose frame is of MAX bytes
\* and of one byte more.
Messages ==
    { Message(tag, <<>>) : tag \in Tags }
    \cup { Message("Have", Run(0, 4)), Message("Bitfield", Run(170, 1)),
           Message("Piece", Run(7, MAX - 1)), Message("Piece", Run(7, MAX)) }

\* MaxKeepAlives heartbeats at most
KeepAlives == { Run(0, 4 * k) : k \in 1..MaxKeepAlives }

\* a length prefix of MAX + 1 and a tag byte
Oversized == ExtendFromSlice(ToBeBytes(MAX + 1), Run(5, 1))

\* complete frames with a tag byte that is no MessageTag
UnknownTagged ==
    { ExtendFromSlice(ToBeBytes(1), Run(9, 1)),
      ExtendFromSlice(ToBeBytes(2), Run(9, 1) \o Run(7, 1)) }

\* What else a remote may write: heartbeats, a frame that is too large,
\* frames of an unknown type, and the beginning of a length prefix and of
\* a Have, which the bytes written next complete.
RawChunks ==
    KeepAlives \cup {Oversized} \cup UnknownTagged
    \cup { Run(0, 2), ExtendFromSlice(ToBeBytes(5), Run(4, 1)) }

\* a stream on which nothing was written yet
CodecInit ==
    /\ EngineOff
    /\ Acquired
    /\ NoWalk
    /\ NoStream
    /\ NoBitfield

\* a writer encodes a message onto the stream
EncodeMessage ==
    /\ fed = 0
    /\ Len(items) < MaxFrames
    /\ \E item \in Messages :
        LET encoded == Encode(item, wire)
        IN  /\ wire' = encoded.dst
            /\ items' = Append(items, [kind |-> "message", res |-> encoded.res,
                                        tag |-> item.tag, bytes |-> item.payload])
    /\ UNCHANGED <<fed, feeds, src, out, last>>
    /\ UNCHANGED <<engine, walk, acquisition, enumeration>>

\* a remote writes bytes of its own
WriteRaw ==
    /\ fed = 0
    /\ Len(items) < MaxFrames
    /\ \E chunk \in RawChunks :
        /\ wire' = ExtendFromSlice(wire, chunk)
        /\ items' = Append(items, [kind |-> "raw", res |-> "ok", tag |-> "", bytes |-> chunk])
    /\ UNCHANGED <<fed, feeds, src, out, last>>
    /\ UNCHANGED <<engine, walk, acquisition, enumeration>>

\* Framed reads from the stream after decode asked for more bytes: one
\* byte (among the first MaxSplit) or all that is left
Feed ==
    /\ last = "none"
    /\ fed < BLen(wire)
    /\ \E n \in {1, BLen(wire) - fed} :
        /\ n = 1 \/ n = BLen(wire) - fed
        /\ n = BLen(wire) - fed \/ fed < MaxSplit
        /\ src' = ExtendFromSlice(src, Range(wire, fed, fed + n))
        /\ fed' = fed + n
    /\ feeds' = feeds + 1
    /\ last' = "fed"
    /\ UNCHANGED <<wire, out, items>>
    /\ UNCHANGED <<engine, walk, acquisition, enumeration>>

\* Framed calls decode on its buffer
DecodeStep ==
    /\ last \in {"fed", "some"}
    /\ LET decoded == Decode(src)
       IN  /\ src' = decoded.src
           /\ last' = decoded.res
           /\ out' = IF decoded.res = "none" THEN out
                      ELSE Append(out, [res |-> decoded.res, tag |-> decoded.tag,
                                        payload |-> decoded.payload, why |-> decoded.why])
    /\ UNCHANGED <<wire, fed, feeds, items>>
    /\ UNCHANGED <<engine, walk, acquisition, enumeration>>

CodecNext ==
    \/ EncodeMessage
    \/ WriteRaw
    \/ Feed
    \/ DecodeStep

CodecSpec == CodecInit /\ [][CodecNext]_vars

\* ------------------------------------------------ enumerating a bitfield
\* u8::BITS
BITS == 8

\* The bytes of the payloads that are enumerated: no bit, the last bit,
\* the first bit, alternating bits both ways, every bit.
PayloadBytes == {0, 1, 85, 128, 170, 255}

\* Bitfield payloads of up to MaxBytes bytes
Payloads == UNION { [1..n -> PayloadBytes] : n \in 0..MaxBytes }

\* an iterator that would count the bits from the least significant one
MaskFromLsb(b) == 2 ^ b

\* let mask = 1u8.rotate_right(bit_i + 1)
Mask(b) == RotateRight1(b + 1)

\* byte & mask != 0, for a mask of one bit
Masked(byte, mask) == (byte \div mask) % 2 = 1

\* bf.pieces() over some payload
PiecesInit ==
    /\ EngineOff
    /\ Acquired
    /\ NoWalk
    /\ NoStream
    /\ bitfield \in Payloads
    /\ at_byte = 0
    /\ at_bit = 0
    /\ produced = <<>>
    /\ query = [piece_i |-> -1, has |-> FALSE]

\* the closure of filter_map runs for the next bit of the current byte
PiecesFilterMap ==
    /\ at_byte < Len(bitfield)
    /\ LET byte    == bitfield[at_byte + 1]
           piece_i == at_byte * BITS + at_bit
           mask    == Mask(at_bit)
       IN  produced' = IF Masked(byte, mask) THEN Append(produced, piece_i) ELSE produced
    /\ IF at_bit + 1 < BITS
       THEN /\ at_bit' = at_bit + 1
            /\ UNCHANGED at_byte
       ELSE /\ at_bit' = 0
            /\ at_byte' = at_byte + 1
    /\ UNCHANGED <<bitfield, query>>
    /\ UNCHANGED <<engine, walk, acquisition, codec>>

PiecesNext == PiecesFilterMap

PiecesSpec == PiecesInit /\ [][PiecesNext]_vars

\* bf.has_piece(piece_i) is called, with an index inside the payload or
\* up to a byte past it
HasPieceCall ==
    /\ \E piece_i \in 0..(BITS * MaxBytes + BITS) :
        query' = [piece_i |-> piece_i, has |-> HasPiece(bitfield, piece_i)]
    /\ UNCHANGED <<bitfield, at_byte, at_bit, produced>>
    /\ UNCHANGED <<engine, walk, acquisition, codec>>

HasPieceNext == HasPieceCall

HasPieceSpec == PiecesInit /\ [][HasPieceNext]_vars

\* ================================================================== claims
NumPeersOf(piece_i) == Cardinality(pieces[piece_i].peers)

InHeap == { need_pieces[k] : k \in 1..Len(need_pieces) }

\* C1: rarest first.  While a piece is out of the heap and being
\* downloaded, no piece that is still in the heap has strictly fewer
\* candidate peers than it: of two pieces the one with fewer peers is
\* popped first.
C1_RarestFirst ==
    cur # -1 => \A j \in InHeap : NumPeersOf(cur) <= NumPeersOf(j)

\* C2: a peer task that exits with an error, also while it holds a
\* requested block, does not stop the piece: as long as a participation
\* remains, the coordinator's loop for the piece comes to an end; and the
\* piece fails with NoPeersLeftForPiece only after every peer task exited.
C2_PieceSurvivesPeerError ==
    /\ [](result.kind = "NoPeersLeftForPiece"
            => \A p \in pieces[cur].peers : exits[p].how # "none")
    /\ ((pc = "recv" /\ Live # {} /\ \E p \in DOMAIN exits : exits[p].how = "err")
            ~> (pc # "recv" \/ Live = {}))

\* C3: every run of the driver ends, with the buffer or with a failure.
C3_DriverEnds == <>(pc = "end")

\* C4: when every peer of piece 0 has closed its stream while the session
\* was still choked, the download has ended with NoPeersLeftForPiece(0).
C4_DisconnectBeforeUnchoke ==
    (cur = 0 /\ closed = pieces[cur].peers /\ \A p \in closed : peers[p].choked)
        => result = [kind |-> "NoPeersLeftForPiece", piece |-> 0, why |-> ""]

NoPeersLeft(piece_i) == [kind |-> "NoPeersLeftForPiece", piece |-> piece_i, why |-> ""]

\* the bytes of piece_i in the output buffer
PieceRegion(piece_i) == Slice(all_pieces, piece_i * t.plength, pieces[piece_i].length)

\* block_size of a block of the current piece
CurBlockSize(block) ==
    BlockSize(block, NBlocks(pieces[cur].length), pieces[cur].length)

\* the bytes of a block of the current piece, as the swarm shares them
CurBlockBytes(block) ==
    FileBytes(cur * t.plength + block * BLOCK_MAX, CurBlockSize(block))

\* C5: once every participation of piece i has exited while the piece is
\* incomplete, the coordinator only drains what is left in the completion
\* channel, without completing the piece, and then the driver returns
\* NoPeersLeftForPiece(i): the piece is never hash-checked, the output
\* buffer is untouched for it, the heap is not popped again and nothing
\* happens after the driver returned.
C5_AllPeersExited ==
    /\ [][(pc = "recv" /\ Live = {}) =>
            \/ /\ pc' = "recv"
               /\ Len(done') < Len(done)
               /\ bytes_received' < pieces[cur].length
            \/ /\ pc' = "end"
               /\ done = <<>>
               /\ result' = NoPeersLeft(cur)
               /\ all_pieces' = all_pieces
               /\ need_pieces' = need_pieces
               /\ popped' = popped]_vars
    /\ [](result.kind = "NoPeersLeftForPiece" =>
            /\ pc = "end"
            /\ result.piece = cur
            /\ bytes_received < pieces[cur].length
            /\ PieceRegion(cur) = Zeros(pieces[cur].length))
    /\ [][pc # "end"]_vars

C5_Witness ==
    /\ result.kind = "NoPeersLeftForPiece"
    /\ bytes_received > 0
    /\ need_pieces # <<>>

\* C6: a session has at most one request outstanding, namely the one for
\* the block it waits for; it writes a Request only when none is
\* outstanding, and a request stops being outstanding only when its Piece
\* is forwarded to the completion channel or when a Choke puts its block
\* back on the work channel.
C6_OneOutstandingRequest ==
    /\ [](\A p \in DOMAIN peers :
            /\ Len(outstanding[p]) <= 1
            /\ part[p].st = "piece" =>
                 outstanding[p] = << [index |-> cur, begin |-> part[p].block * BLOCK_MAX,
                                       length |-> CurBlockSize(part[p].block)] >>
            /\ part[p].st \in {"interested", "unchoke", "tasks", "request"} =>
                 outstanding[p] = <<>>)
    /\ [][\A p \in DOMAIN peers :
            /\ Len(outstanding'[p]) > Len(outstanding[p]) => outstanding[p] = <<>>
            /\ Len(outstanding'[p]) < Len(outstanding[p]) =>
                 \/ /\ Len(done') = Len(done) + 1
                    /\ done' = Append(done, done'[Len(done')])
                    /\ done'[Len(done')].index = outstanding[p][1].index
                    /\ done'[Len(done')].begin = outstanding[p][1].begin
                    /\ tasks' = tasks
                 \/ /\ tasks' = Append(tasks, outstanding[p][1].begin \div BLOCK_MAX)
                    /\ peers'[p].choked
                    /\ done' = done]_vars

C6_Witness ==
    /\ pc = "recv"
    /\ pieces[cur].peers = {0}
    /\ part[0] = [st |-> "piece", block |-> 1]
    /\ Len(outstanding[0]) = 1
    /\ delivered[0] = 1

\* what the claim C7 says of a step in which a Choke interrupts a request
ChokeRecovered ==
    \E p \in DOMAIN peers :
        /\ part[p].st = "piece"
        /\ part'[p] = [st |-> "unchoke", block |-> -1]
        /\ peers'[p].choked
        /\ tasks' = Append(tasks, part[p].block)
        /\ done' = done
        /\ pc' = pc

RECURSIVE DeliveredBytes(_)
DeliveredBytes(blocks) ==
    IF blocks = {} THEN 0
    ELSE LET b == CHOOSE x \in blocks : TRUE
         IN  delivered[b] * CurBlockSize(b) + DeliveredBytes(blocks \ {b})

\* C8: while a piece is assembled and when it is complete, no block index
\* was received twice by the coordinator, bytes_received is the sum of the
\* sizes of the received blocks and at most the piece length, every
\* received block lies at its begin offset in the piece buffer whatever
\* the order of arrival, the rest of the buffer is untouched, and a
\* complete piece has every block exactly once.
C8_EachBlockOnce ==
    pc \in {"recv", "verify"} =>
        /\ \A b \in DOMAIN delivered : delivered[b] <= 1
        /\ bytes_received <= pieces[cur].length
        /\ bytes_received = DeliveredBytes(DOMAIN delivered)
        /\ \A b \in DOMAIN delivered :
            LET region == Slice(all_blocks, b * BLOCK_MAX, CurBlockSize(b))
            IN  IF delivered[b] = 1
                THEN region \in {CurBlockBytes(b), Flipped(CurBlockBytes(b))}
                ELSE region = Zeros(CurBlockSize(b))
        /\ pc = "verify" => \A b \in DOMAIN delivered : delivered[b] = 1

C8_Witness ==
    /\ pc = "verify"
    /\ chokes # <<>>
    /\ Cardinality(pieces[cur].peers) >= 2
    /\ Cardinality(DOMAIN delivered) >= 2

\* C9: a piece is in the output buffer only if its bytes have the expected
\* SHA-1; the buffer changes only when a piece whose hash matched is
\* copied; a piece whose hash differs makes the download panic with the
\* output buffer unchanged, and after that nothing is returned.
C9_HashBeforeCopy ==
    /\ [](all_pieces # <<>> =>
            \A i \in DOMAIN pieces :
                PieceRegion(i) # Zeros(pieces[i].length) => Sha1(PieceRegion(i)) = t.pieces[i])
    /\ [][(pc = "verify" /\ Sha1(all_blocks) # t.pieces[cur]) =>
            /\ result'.kind = "panic"
            /\ pc' = "end"
            /\ all_pieces' = all_pieces]_vars
    /\ [][all_pieces' # all_pieces =>
            \/ pc = "build"
            \/ /\ pc = "verify"
               /\ Sha1(all_blocks) = t.pieces[cur]
               /\ all_pieces' = CopyFromSlice(all_pieces, cur * t.plength, all_blocks)]_vars
    /\ [](result.kind = "panic" => pc = "end")
    /\ [][pc = "end" => FALSE]_vars

C9_Witness ==
    /\ result.kind = "panic"
    /\ result.why = "assert_eq!(hash, piece.hash())"
    /\ Len(popped) = 2
    /\ PieceRegion(popped[1]) # Zeros(pieces[popped[1]].length)
    /\ PieceRegion(cur) = Zeros(pieces[cur].length)

\* C10: when the download succeeds the buffer has the torrent's length,
\* the bytes of every piece i lie at i * plength and are the bytes that
\* hash to the piece's SHA-1, whatever the order of the pops, and every
\* piece was popped exactly once.
C10_BufferLayout ==
    result.kind = "ok" =>
        /\ Len(all_pieces) * Unit = TLength(t)
        /\ \A i \in 0..(NPieces - 1) :
            /\ Slice(all_pieces, i * t.plength, PieceLength(i)) = FileBytes(i * t.plength, PieceLength(i))
            /\ Sha1(Slice(all_pieces, i * t.plength, PieceLength(i))) = t.pieces[i]
            /\ Cardinality({ k \in 1..Len(popped) : popped[k] = i }) = 1
        /\ Len(popped) = NPieces

C10_Witness ==
    /\ result.kind = "ok"
    /\ popped = <<1, 0>>

\* C11: the walk yields the files in manifest order; the slice of the k-th
\* file is the part of the buffer that starts at the sum of the lengths of
\* the files before it and has the file's length, so that the slices do not
\* overlap and, once every file was yielded, cover the buffer.
C11_FileSlices ==
    /\ \A k \in 1..Len(yielded) :
        /\ yielded[k].file = downloaded.files[k]
        /\ yielded[k].bytes =
              Slice(downloaded.bytes, SumLengths(SubSeq(downloaded.files, 1, k - 1)),
                    downloaded.files[k].length)
    /\ file_iter = <<>> => SumLengths(downloaded.files) = Len(downloaded.bytes) * Unit

\* C12: the work channel closes when its senders are dropped and that is
\* how sessions stop: a participation that waits on the work receiver when
\* every block of the piece has been taken and none is held by a session
\* any more observes the closed channel and returns Ok(()).
C12_CleanExit ==
    \A p \in 0..(MaxPeers - 1) :
        [](( /\ p \in DOMAIN part
             /\ pc = "recv"
             /\ part[p].st = "tasks"
             /\ tasks = <<>>
             /\ \A q \in DOMAIN part : part[q].block = -1 )
           => <>(p \in DOMAIN exits /\ exits[p].how = "ok"))

\* what the claims C13 and C14 call a session that is established
Establishes(remote) ==
    /\ remote.connect
    /\ remote.io
    /\ remote.length = 19
    /\ remote.bittorrent = "BitTorrent protocol"
    /\ remote.res = "some"
    /\ remote.tag = "Bitfield"

\* C13: the driver never holds more than 5 sessions and never has more
\* than 5 connection attempts in flight; as soon as 5 sessions succeeded
\* the acquisition is over and the other attempts are dropped; every
\* retained session comes from a handshake of length 19 with the protocol
\* string, holds the payload of a first message tagged Bitfield as its
\* bitfield, and is choked.
C13_AtMostFivePeers ==
    /\ Cardinality(DOMAIN peers) <= 5
    /\ Cardinality(in_flight) <= 5
    /\ Cardinality(DOMAIN peers) = 5 => (pc # "connect" /\ in_flight = {})
    /\ pc \in {"connect", "build"} =>
        /\ DOMAIN accepted = DOMAIN peers
        /\ \A i \in DOMAIN peers :
            /\ Establishes(accepted[i])
            /\ peers[i].bitfield = accepted[i].payload
            /\ peers[i].choked

C13_Witness ==
    /\ pc = "build"
    /\ Cardinality(DOMAIN peers) = 5
    /\ failed # {}
    /\ addrs # <<>> \/ Cardinality(failed) = MaxAddrs - 5

\* C14: a failure to establish a session with one peer only drops that
\* peer: the address is logged, the peer list is as before, the other
\* attempts stay in flight, the acquisition goes on and the download is
\* not aborted.
C14_FailureDropsOnePeer ==
    [][(attempt' # attempt /\ ~Establishes(attempt'.remote)) =>
            /\ attempt'.addr \in failed'
            /\ peers' = peers
            /\ (in_flight \ {attempt'.addr}) \subseteq in_flight'
            /\ pc' = "connect"
            /\ result' = Running]_vars

\* C15: every Request written for block b of a piece of size S has
\* begin = b * 16384 and length = min(16384, S - b * 16384), which is
\* positive and at most 16384; and the requests for the blocks that the
\* coordinator seeds, 0 .. ceil(S / 16384) - 1, ask for consecutive ranges
\* that start at 0 and end at S: they are disjoint and cover the piece.
C15_RequestRanges ==
    /\ \A p \in DOMAIN outstanding : \A k \in 1..Len(outstanding[p]) :
        LET request == outstanding[p][k]
            S       == pieces[request.index].length
            b       == request.begin \div 16384
        IN  /\ request.begin = b * 16384
            /\ b \in 0..((S + 16383) \div 16384 - 1)
            /\ request.length = Min(16384, S - b * 16384)
            /\ 0 < request.length /\ request.length <= 16384
    /\ pc = "recv" =>
        LET S      == pieces[cur].length
            n      == Cardinality(DOMAIN delivered)
            end(b) == b * BLOCK_MAX + CurBlockSize(b)
        IN  /\ DOMAIN delivered = 0..((S + 16383) \div 16384 - 1)
            /\ n > 0
            /\ end(n - 1) = S
            /\ \A b \in 0..(n - 2) : end(b) = (b + 1) * BLOCK_MAX

C15_Witness ==
    /\ pc = "recv"
    /\ pieces[cur].length = 24576
    /\ \E p \in DOMAIN outstanding :
        outstanding[p] = << [index |-> cur, begin |-> 16384, length |-> 8192] >>
    /\ delivered[0] = 1

\* what decode yields for a written message
Yielded(item) == [res |-> "some", tag |-> item.tag, payload |-> item.bytes, why |-> ""]

\* the items that put bytes on the stream
Written == SelectSeq(items, LAMBDA item : item.res = "ok")

\* the reader has read the whole stream and decode asks for more
Drained == fed = BLen(wire) /\ last = "none"

\* the bytes of the frames of the first k written items
RECURSIVE FramesLength(_)
FramesLength(k) ==
    IF k = 0 THEN 0 ELSE 4 + 1 + BLen(Written[k].bytes) + FramesLength(k - 1)

\* C16: when the stream holds only encoded messages with one of the nine
\* tags and at most 65535 bytes of payload, every encode succeeded and put
\* 4 + 1 + |payload| bytes on the stream; what decode yields is these
\* messages, with the same tag and payload and in order; each of them took
\* exactly the bytes of its frame from the buffer, and the buffer is empty
\* once the last one was decoded.
C16_RoundTrip ==
    (\A k \in 1..Len(items) :
        /\ items[k].kind = "message"
        /\ items[k].tag \in Tags
        /\ BLen(items[k].bytes) <= 65535)
    => /\ \A k \in 1..Len(items) : items[k].res = "ok"
       /\ BLen(wire) = FramesLength(Len(items))
       /\ Len(out) <= Len(items)
       /\ \A j \in 1..Len(out) : out[j] = Yielded(items[j])
       /\ BLen(src) = fed - FramesLength(Len(out))
       /\ Drained => (Len(out) = Len(items) /\ src = <<>>)

C16_Witness ==
    /\ Len(items) = 2
    /\ items[1].tag = "Piece" /\ BLen(items[1].bytes) = 65535
    /\ items[2].tag = "Have"
    /\ Len(out) = 2
    /\ out[1].payload = Run(7, 65535)
    /\ src = <<>>

\* feeding a byte string to decode at once
RECURSIVE DecodeAll(_)
DecodeAll(buf) ==
    LET decoded == Decode(buf)
    IN  IF decoded.res = "none" THEN [out |-> <<>>, src |-> decoded.src]
        ELSE LET this == [res |-> decoded.res, tag |-> decoded.tag,
                          payload |-> decoded.payload, why |-> decoded.why]
             IN  IF decoded.res = "err" THEN [out |-> <<this>>, src |-> decoded.src]
                 ELSE LET rest == DecodeAll(decoded.src)
                      IN  [out |-> <<this>> \o rest.out, src |-> rest.src]

\* a buffer without the heartbeats it starts with
RECURSIVE StripKeepAlives(_)
StripKeepAlives(buf) ==
    IF BLen(buf) >= 4 /\ Prefix(buf, 4) = Run(0, 4)
    THEN StripKeepAlives(Advance(buf, 4))
    ELSE buf

\* C17: however the bytes of a stream reach the decoder, one at a time or
\* in larger reads, when it asks for more (or has failed) it has yielded
\* the messages and errors, and kept the bytes, that decoding the same
\* bytes at once yields and keeps; and a decode that answers "need more
\* bytes" has removed nothing from the buffer but the heartbeats it starts
\* with.
C17_Incremental ==
    /\ [](last \in {"none", "err"} =>
            [out |-> out, src |-> src] = DecodeAll(Prefix(wire, fed)))
    /\ [][(last # "none" /\ last' = "none") => src' = StripKeepAlives(src)]_vars

C17_Witness ==
    /\ Drained
    /\ feeds = fed
    /\ fed > 9
    /\ Len(out) = 2
    /\ items[1].bytes \in KeepAlives \/ items[2].tag = "Have"

\* C18: heartbeats are dropped silently.  A stream of heartbeats followed
\* by one encoded message yields exactly that message; a stream of
\* heartbeats only yields nothing and the heartbeats are consumed; and
\* decode never yields more messages than there are items other than
\* heartbeats on the stream.
C18_KeepAlivesDropped ==
    LET heartbeat(k) == items[k].kind = "raw" /\ items[k].bytes \in KeepAlives
        n            == Len(items)
    IN  /\ (/\ Drained
             /\ n >= 2
             /\ \A k \in 1..(n - 1) : heartbeat(k)
             /\ items[n].kind = "message" /\ items[n].res = "ok")
            => (out = <<Yielded(items[n])>> /\ src = <<>>)
        /\ (/\ Drained
             /\ n >= 1
             /\ \A k \in 1..n : heartbeat(k))
            => (out = <<>> /\ src = <<>>)
        /\ Cardinality({ j \in 1..Len(out) : out[j].res = "some" })
               <= Cardinality({ k \in 1..n : ~heartbeat(k) })

C18_Witness ==
    /\ Drained
    /\ Len(items) = 2
    /\ items[1].bytes = Run(0, 8)
    /\ items[2].kind = "message"
    /\ Len(out) = 1
    /\ out[1].tag = items[2].tag

\* C19: decode yields no message of a frame whose length prefix exceeds
\* 65536: such a frame fails with the too-large error as soon as its tag
\* byte is there; a frame with length prefix 65536 is yielded; a complete
\* frame whose tag byte is not in 0..8 fails with the unknown-type error;
\* encode rejects a message exactly when 1 + |payload| > 65536, and a
\* rejected message leaves the output buffer as it was.
C19_FrameLimits ==
    /\ [](\A j \in 1..Len(out) : out[j].res = "some" => 1 + BLen(out[j].payload) <= 65536)
    /\ []((/\ Written # <<>>
            /\ Written[1].kind = "raw"
            /\ Written[1].bytes = ExtendFromSlice(ToBeBytes(65537), Run(5, 1))
            /\ fed >= 5
            /\ last \in {"none", "err"})
           => out = << [res |-> "err", tag |-> "", payload |-> <<>>,
                        why |-> "Frame is too large"] >>)
    /\ []((/\ Written # <<>>
            /\ Written[1].kind = "message"
            /\ 1 + BLen(Written[1].bytes) = 65536
            /\ fed >= 4 + 65536
            /\ last \in {"none", "err"})
           => (out # <<>> /\ out[1] = Yielded(Written[1])))
    /\ []((/\ Written # <<>>
            /\ Written[1].kind = "raw"
            /\ Written[1].bytes \in UnknownTagged
            /\ fed >= BLen(Written[1].bytes)
            /\ last \in {"none", "err"})
           => out = << [res |-> "err", tag |-> "", payload |-> <<>>,
                        why |-> "Unknown message type"] >>)
    /\ [](\A k \in 1..Len(items) : items[k].kind = "message" =>
            (items[k].res = "err" <=> 1 + BLen(items[k].bytes) > 65536))
    /\ [][(Len(items') > Len(items) /\ items'[Len(items')].res = "err") => wire' = wire]_vars

C19_Witness ==
    /\ Len(items) = 2
    /\ items[1].res = "err"
    /\ BLen(items[1].bytes) = 65536
    /\ BLen(wire) = 4 + 65536
    /\ last = "none"
    /\ Len(out) = 1
    /\ BLen(out[1].payload) = 65535

\* the indices the iterator has yielded
Produced == { produced[k] : k \in 1..Len(produced) }

\* C20: the iterator and has_piece agree.  Among the indices the iterator
\* has gone over, it has yielded exactly those for which has_piece holds
\* and no other index; it yields them in strictly increasing order; when
\* it is exhausted this is so for every index, also beyond the payload; and
\* the payload [0b10101010, 0b01010101] yields 0, 2, 4, 6, 9, 11, 13, 15.
C20_PiecesAgree ==
    LET seen == at_byte * 8 + at_bit
    IN  /\ \A i \in 0..(seen - 1) : (i \in Produced <=> HasPiece(bitfield, i))
        /\ \A i \in Produced : i < seen
        /\ \A k \in 1..(Len(produced) - 1) : produced[k] < produced[k + 1]
        /\ at_byte = Len(bitfield) =>
            /\ \A i \in 0..(8 * Len(bitfield) + 8) : (i \in Produced <=> HasPiece(bitfield, i))
            /\ bitfield = <<170, 85>> => produced = <<0, 2, 4, 6, 9, 11, 13, 15>>

C20_Witness ==
    /\ bitfield = <<170, 85>>
    /\ at_byte = Len(bitfield)
    /\ Len(produced) = 8

\* C21: has_piece reads the bitfield from the most significant bit: for an
\* index i below 8 * |payload| the answer is bit 7 - i mod 8 of the byte
\* payload[i div 8], and for any other index it is false.
C21_MsbFirst ==
    query.piece_i >= 0 =>
        LET i == query.piece_i
        IN  IF i < 8 * Len(bitfield)
            THEN query.has = ((bitfield[i \div 8 + 1] \div 2 ^ (7 - (i % 8))) % 2 = 1)
            ELSE query.has = FALSE

C21_Witness ==
    /\ bitfield = <<170, 85>>
    /\ query = [piece_i |-> 15, has |-> TRUE]

\* C22: the driver handles the pieces strictly one after another.
\* Participations run only while the coordinator of the current piece
\* receives, and they are participations of that piece; the next piece is
\* popped, and its channels and participations are created, only when no
\* participation is left and the piece before it was completed, matched
\* its hash and was copied into the output buffer.
C22_OnePieceAtATime ==
    /\ [](Live # {} => (pc = "recv" /\ Live \subseteq pieces[cur].peers))
    /\ [][Len(popped') > Len(popped) =>
            /\ pc = "pop"
            /\ Live = {}
            /\ \A p \in DOMAIN part' : part'[p].st \in {"idle", "interested"}
            /\ cur # -1 =>
                /\ bytes_received = pieces[cur].length
                /\ Sha1(all_blocks) = t.pieces[cur]
                /\ PieceRegion(cur) = all_blocks]_vars

C22_Witness ==
    /\ Len(popped) = 2
    /\ pc = "recv"
    /\ Cardinality(Live) = 2
    /\ \E p \in Live : part[p].st = "piece"

\* the participation of p ends with an error; the coordinator, the result
\* of the download and the other participations are as before
FailsAlone(p) ==
    /\ part'[p].st = "exited"
    /\ exits'[p].how = "err"
    /\ pc' = pc
    /\ result' = result
    /\ \A q \in DOMAIN part \ {p} : part'[q] = part[q]

\* what a step that read a message did, by the loop the session was in;
\* with_payload tells whether an Unchoke that carries a payload counts
Strictness(with_payload) ==
    \A p \in DOMAIN peers :
        (heard'.peer = p /\ heard'.msg.res = "some") =>
            LET msg == heard'.msg
            IN  /\ part[p].st = "unchoke" =>
                    /\ (msg.tag = "Unchoke" /\ (with_payload \/ msg.len = 0)) =>
                            /\ peers'[p].choked = FALSE
                            /\ part'[p].st = "tasks"
                            /\ pc' = pc
                            /\ result' = result
                    /\ msg.tag \in {"Choke", "Bitfield"} => FailsAlone(p)
                    /\ msg.tag \notin {"Unchoke", "Choke", "Bitfield"} =>
                            /\ peers' = peers
                            /\ part' = part
                            /\ pc' = pc
                /\ part[p].st = "piece" =>
                    (msg.tag \in {"Unchoke", "Bitfield"} => FailsAlone(p))

C24_MismatchDiscarded ==
    [][\A p \in DOMAIN peers :
        (/\ heard'.peer = p
         /\ part[p].st = "piece"
         /\ heard'.msg.res = "some"
         /\ heard'.msg.tag = "Piece"
         /\ heard'.msg.len >= PIECE_LEAD) =>
            LET msg        == heard'.msg
                block      == part[p].block
                piece_size == pieces[cur].length
                block_size == BlockSize(block, NBlocks(piece_size), piece_size)
                matches    == /\ msg.index = cur
                              /\ msg.begin = block * BLOCK_MAX
                              /\ msg.len - PIECE_LEAD = block_size
            IN  IF matches
                THEN done' = Append(done, msg)
                ELSE /\ done' = done
                     /\ part'[p] = part[p]
                     /\ pc' = pc
                     /\ result' = result]_vars

\* C25: a peer session whose participation ended with an error is
\* destroyed: the coordinator of the next piece gets no participation of
\* it, so nothing more is sent to it or read from it.
C25_ErroredPeerNotLent ==
    [][Len(popped') > Len(popped) =>
        \A p \in DOMAIN peers :
            exits[p].how = "err" => part'[p].st = "idle"]_vars

\* the peers whose bitfield has the bit of piece_i
Advertisers(piece_i) ==
    { p \in DOMAIN peers : HasPiece(peers[p].bitfield, piece_i) }

\* the pieces of the torrent that no connected peer advertises
Orphans == { i \in 0..(NPieces - 1) : Advertisers(i) = {} }

\* C26: the coordinator never runs on a piece without candidate peers.
\* Such pieces are kept out of the heap, and when there is one (with no
\* peer connected every piece is one) the driver aborts once the pieces
\* are built: nothing is popped and no block of any piece is requested.
C26_NoCoordinatorWithoutPeers ==
    /\ \A k \in 1..Len(popped) : Advertisers(popped[k]) # {}
    /\ \A k \in 1..Len(need_pieces) : need_pieces[k] \notin Orphans
    /\ (pc # "build" /\ Orphans # {}) =>
        /\ no_peers = Orphans
        /\ pc = "end"
        /\ result.kind = "panic"
        /\ result.why = "no_peers.is_empty()"
        /\ popped = <<>>
        /\ \A p \in DOMAIN peers : outstanding[p] = <<>> /\ part[p] = Idle

C26_Witness ==
    /\ pc = "end"
    /\ NPieces = 2
    /\ Cardinality(DOMAIN peers) = 2
    /\ Cardinality(Orphans) = 1
    /\ result.kind = "panic"
    /\ need_pieces # <<>>

\* C27: the participations of a piece are exactly one per peer whose
\* initial bitfield has the bit of the piece.  While the coordinator of
\* piece cur runs, a peer has a participation (running or returned) iff
\* its bitfield has bit cur; when the piece starts every such peer gets a
\* fresh participation and no other peer gets one; and a Request for
\* piece i is only ever written to a peer whose bitfield has bit i.
C27_OneParticipationPerAdvertiser ==
    /\ [](pc = "recv" =>
            \A p \in DOMAIN peers :
                (part[p].st # "idle") <=> HasPiece(peers[p].bitfield, cur))
    /\ [](\A p \in DOMAIN peers : \A k \in 1..Len(outstanding[p]) :
            HasPiece(peers[p].bitfield, outstanding[p][k].index))
    /\ [][Len(popped') > Len(popped) =>
            \A p \in DOMAIN peers :
                /\ part[p].st = "idle"
                /\ part'[p].st = IF HasPiece(peers[p].bitfield, cur')
                                 THEN "interested" ELSE "idle"]_vars

C27_Witness ==
    /\ pc = "recv"
    /\ Len(popped) = 2
    /\ \E p, q \in DOMAIN peers :
        /\ part[p].st = "piece"
        /\ outstanding[p] # <<>>
        /\ ~HasPiece(peers[q].bitfield, cur)
        /\ HasPiece(peers[q].bitfield, popped[1])
        /\ part[q].st = "idle"

\* the capacity of both channels of the current piece
Capacity == NBlocks(pieces[cur].length)

\* C28: during a piece with n blocks the work channel never holds more
\* than n block indices and the completion channel never holds more than
\* n messages (the indices queued, those held by participations and the
\* blocks forwarded or received are at most n together), so no send of
\* the seeding, of a resubmission or of a forwarded block finds its
\* channel full.
C28_Backpressure ==
    pc = "recv" =>
        /\ Len(tasks) <= Capacity
        /\ Len(done) <= Capacity
        /\ Len(tasks) + Cardinality({ p \in Live : part[p].block >= 0 }) + Len(done)
                <= Capacity

C28_Witness ==
    /\ pc = "recv"
    /\ Capacity = 2
    /\ Len(tasks) = 2
    /\ chokes # <<>>
    /\ tasks[2] = 0

\* the lengths of the first k piece descriptors together
RECURSIVE LengthOfFirst(_)
LengthOfFirst(k) == IF k = 0 THEN 0 ELSE LengthOfFirst(k - 1) + pieces[k - 1].length

\* C29: with total length T > 0, piece length P and n = ceil(T / P) piece
\* hashes, every piece descriptor but the last has length P, the last has
\* length T - (n - 1) * P, which is above 0 and at most P, and the lengths
\* of all the pieces sum to T.
C29_PieceLengths ==
    pc # "build" =>
        LET T == TLength(t)
            P == t.plength
            n == NPieces
        IN  /\ T > 0
            /\ n = (T + P - 1) \div P
            /\ DOMAIN pieces = 0..(n - 1)
            /\ \A i \in 0..(n - 2) : pieces[i].length = P
            /\ pieces[n - 1].length = T - (n - 1) * P
            /\ 0 < pieces[n - 1].length
            /\ pieces[n - 1].length <= P
            /\ LengthOfFirst(n) = T

C29_Witness ==
    /\ pc = "recv"
    /\ NPieces = 2
    /\ t.plength = BLOCK_MAX
    /\ pieces[0].length = BLOCK_MAX
    /\ pieces[1].length = Unit
    /\ cur = 1

\* in how many places block index b of the current piece is: queued in
\* the work channel, held by a running participation, or forwarded and
\* waiting in the completion channel
Places(b) ==
    Cardinality({ k \in 1..Len(tasks) : tasks[k] = b })
    + Cardinality({ p \in Live : part[p].block = b })
    + Cardinality({ k \in 1..Len(done) : done[k].begin = b * BLOCK_MAX })

\* C30: block conservation.  While a piece is downloaded, every block
\* index the coordinator has not received yet is in exactly one place: in
\* the work channel, or with exactly one participation that still runs
\* (a block it forwarded counts until the coordinator takes it); a block
\* the coordinator has received is in none.
C30_BlockConservation ==
    pc = "recv" =>
        \A b \in 0..(NBlocks(pieces[cur].length) - 1) :
            IF delivered[b] = 0 THEN Places(b) = 1 ELSE Places(b) = 0

\* the step in which the coordinator takes the block that completes the
\* piece and leaves its loop
SeesPieceComplete ==
    /\ pc = "recv"
    /\ pc' = "verify"
    /\ delivered' # delivered

\* when the coordinator sees the piece complete, every participation is
\* in one of the given places, holds no block, and no Request of any
\* session is unanswered
QuietAtCompletion(places) ==
    SeesPieceComplete =>
        \A p \in DOMAIN peers :
            /\ part[p].st \in places \cup {"idle"}
            /\ part[p].block = -1
            /\ outstanding[p] = <<>>

\* C31 as stated: when the coordinator sees bytes_received equal to the
\* piece length, every participation has exited, waits on the work
\* receiver or waits for an Unchoke.
C31_ThreePlaces == [][QuietAtCompletion({"exited", "tasks", "unchoke"})]_vars

\* C31: when the coordinator sees bytes_received equal to the piece
\* length and drops the participations, none of them awaits a Piece reply
\* or holds a block: each has exited, waits on the work receiver, waits
\* for an Unchoke, or has not finished sending its Interested; no Request
\* is left whose reply would have to be matched later.
C31_QuietAtCompletion ==
    [][QuietAtCompletion({"exited", "tasks", "unchoke", "interested"})]_vars

C31_Witness ==
    /\ pc = "verify"
    /\ bytes_received = pieces[cur].length
    /\ Capacity = 2
    /\ Cardinality(Advertisers(cur)) = 2
    /\ chokes # <<>>
    /\ \E p, q \in DOMAIN peers : peers[p].choked /\ ~peers[q].choked

\* a Request is written to peer p in this step
WritesRequest(p) == Len(outstanding'[p]) > Len(outstanding[p])

\* C32: a session writes a Request only while its choked flag is false.
\* The flag is true until the first piece starts; it becomes false only
\* when the session reads an Unchoke in its choked loop and true only
\* when it reads a Choke while it awaits a reply; outside the
\* participations (between pieces) it keeps its value; a session that
\* holds a block or awaits a reply is not choked, and no step writes a
\* Request for a session whose flag is true.
C32_RequestOnlyUnchoked ==
    /\ [](popped = <<>> => \A p \in DOMAIN peers : peers[p].choked)
    /\ [](\A p \in DOMAIN peers :
            part[p].st \in {"request", "piece"} => ~peers[p].choked)
    /\ [][\A p \in DOMAIN peers :
            /\ (peers[p].choked /\ ~peers'[p].choked) =>
                    /\ part[p].st = "unchoke"
                    /\ heard' = [peer |-> p, msg |-> heard'.msg]
                    /\ heard'.msg.res = "some"
                    /\ heard'.msg.tag = "Unchoke"
            /\ (~peers[p].choked /\ peers'[p].choked) =>
                    /\ part[p].st = "piece"
                    /\ heard' = [peer |-> p, msg |-> heard'.msg]
                    /\ heard'.msg.res = "some"
                    /\ heard'.msg.tag = "Choke"
            /\ pc # "recv" => peers'[p] = peers[p]
            /\ WritesRequest(p) => (~peers[p].choked /\ ~peers'[p].choked)]_vars

C32_Witness ==
    /\ pc = "recv"
    /\ Len(popped) = 2
    /\ chokes # <<>>
    /\ \E p, q \in DOMAIN peers :
        /\ part[p].st = "piece"
        /\ outstanding[p] # <<>>
        /\ ~peers[p].choked
        /\ part[q].st = "unchoke"
        /\ peers[q].choked

====
